---- MODULE Spec2Model ----
(***************************************************************************)
(* Model of examples/export.py: the export of a HAWQ model to QONNX.       *)
(*                                                                         *)
(* A model is a tree of torch modules kept in a heap of objects with       *)
(* identities; export_to_qonnx checks its arguments, registers the custom  *)
(* operator hooks, deep-copies the model, replaces the quantized layers of *)
(* the copy and hands the copy to torch.onnx.export.                       *)
(***************************************************************************)
EXTENDS Integers, Sequences, FiniteSets, TLC

VARIABLES heap,          \* object id -> module object (the live objects)
          orig,          \* the caller's model as it was built (history)
          pc,            \* position inside export_to_qonnx
          arg_model,     \* argument model: an object id, or None
          arg_input,     \* argument input: a tensor, or None
          arg_filename,  \* argument filename: a name, or None
          filename,      \* the local filename after defaulting
          registry,      \* torch's custom-operator symbolic registry
          export_model,  \* the local export_model (an id), or None
          export_calls,  \* the models torch.onnx.export was called with
          ret,           \* the value returned by the last call, or None
          err,           \* the message of the RuntimeError raised, or ""
          layer,         \* a QuantAct under test (layer-level specification)
          act,           \* the ExportQuantAct built from it, or None
          out            \* the last forward call on act, or None

vars == <<heap, orig, pc, arg_model, arg_input, arg_filename, filename,
          registry, export_model, export_calls, ret, err, layer, act, out>>

treeVars == <<heap, orig, pc, arg_model, arg_input, arg_filename, filename,
              registry, export_model, export_calls, ret, err>>

actVars == <<layer, act, out>>

None == 0

(***************************************************************************)
(* Bounds of the model.                                                    *)
(***************************************************************************)
MaxNodes == 3      \* modules in the caller's model, the root included
MaxBit == 3        \* activation_bit ranges over 1..MaxBit
MaxScale == 2      \* act_scaling_factor values 1..MaxScale
MaxInput == 2      \* input tensors 1..MaxInput

(***************************************************************************)
(* Program constants.                                                      *)
(***************************************************************************)
SUPPORTED_LAYERS == {"QuantAct", "QuantLinear", "QuantConv2d"}

UNSUPPORTED_LAYERS == {"QuantBnConv2d", "QuantMaxPool2d", "QuantAveragePool2d"}

SUPPORTED_QONNX == {"Quant", "BipolarQuant"}

UNSUPPORTED_QONNX == {"Trunc"}

DOMAIN_STRING == "hawq_onnx"

\* f'{DOMAIN_STRING}::<name>' for the three operator names of the file
OpName(name) ==
    CASE name = "Quant" -> "hawq_onnx::Quant"
      [] name = "BipolarQuant" -> "hawq_onnx::BipolarQuant"
      [] name = "Trunc" -> "hawq_onnx::Trunc"

FullPrecisionBits == 32

NoAttrs == [none |-> TRUE]

NoKids == [nm \in {} |-> None]

NoNodeAttrs == [nm \in {} |-> ""]

NoLayer == [none |-> TRUE]

NoFilename == <<>>

NoError == <<>>

(***************************************************************************)
(* The autograd functions.  A tensor is a number; apply is modelled by the *)
(* value forward returns together with the graph node symbolic emits when  *)
(* the call is traced.                                                     *)
(***************************************************************************)
\* a forward that hands back the scale instead of its input
QuantFunc_forward_Scale(x, scale, zero_point, bit_width, signed, narrow_range, rounding_mode) ==
    scale

QuantFunc_forward(x, scale, zero_point, bit_width, signed, narrow_range, rounding_mode) ==
    x

\* a symbolic that leaves the zero point out of the node
QuantFunc_symbolic_NoZeroPoint(x, scale, zero_point, bit_width, signed, narrow_range, rounding_mode) ==
    [op |-> OpName("Quant"),
     inputs |-> <<x, scale, bit_width>>,
     attrs |-> [rounding_mode_s |-> rounding_mode,
                signed_i |-> signed,
                narrow_i |-> narrow_range]]

QuantFunc_symbolic(x, scale, zero_point, bit_width, signed, narrow_range, rounding_mode) ==
    [op |-> OpName("Quant"),
     inputs |-> <<x, scale, zero_point, bit_width>>,
     attrs |-> [rounding_mode_s |-> rounding_mode,
                signed_i |-> signed,
                narrow_i |-> narrow_range]]

BinaryQuantFunc_forward(x, scale) ==
    x

BinaryQuantFunc_symbolic(x, scale) ==
    [op |-> OpName("BipolarQuant"), inputs |-> <<x, scale>>, attrs |-> NoNodeAttrs]

TruncFunc_forward(x, scale, zero_point, input_bit_width, output_bit_width, rounding_mode) ==
    x

TruncFunc_symbolic(x, scale, zero_point, input_bit_width, output_bit_width, rounding_mode) ==
    [op |-> OpName("Trunc"),
     inputs |-> <<x, scale, zero_point, input_bit_width, output_bit_width>>,
     attrs |-> [rounding_mode_s |-> rounding_mode]]

(***************************************************************************)
(* ExportQuantAct.  l is the attribute record of the QuantAct it is built  *)
(* from; the result is the attribute record of the new layer.              *)
(***************************************************************************)
\* a constructor that ignores full_precision_flag
ExportQuantAct_NoFullPrecision(l) ==
    [export_mode |-> TRUE,
     scale |-> l.act_scaling_factor,
     zero_point |-> 0,
     bit_width |-> l.activation_bit,
     narrow_range |-> 0,
     rounding_mode |-> "ROUND",
     signed |-> IF l.quant_mode = "symmetric" THEN 1 ELSE 0]

ExportQuantAct(l) ==
    [export_mode |-> TRUE,
     scale |-> l.act_scaling_factor,
     zero_point |-> 0,
     bit_width |-> IF l.full_precision_flag THEN FullPrecisionBits
                   ELSE l.activation_bit,
     narrow_range |-> 0,
     rounding_mode |-> "ROUND",
     signed |-> IF l.quant_mode = "symmetric" THEN 1 ELSE 0]

\* forward(self, x, act_scaling_factor): the layer after the call, the pair
\* returned and the graph node emitted
ExportQuantAct_forward(self, x, act_scaling_factor) ==
    IF self.bit_width = 1
    THEN [self |-> self,
          ret |-> <<BinaryQuantFunc_forward(x, self.scale), act_scaling_factor>>,
          node |-> BinaryQuantFunc_symbolic(x, self.scale)]
    ELSE [self |-> self,
          ret |-> <<QuantFunc_forward(x, self.scale, self.zero_point, self.bit_width,
                                      self.signed, self.narrow_range, self.rounding_mode),
                    act_scaling_factor>>,
          node |-> QuantFunc_symbolic(x, self.scale, self.zero_point, self.bit_width,
                                      self.signed, self.narrow_range, self.rounding_mode)]

(***************************************************************************)
(* ExportQuantLinear and ExportQuantConv2d.  id is the layer replaced and  *)
(* l its object; fc is a fresh torch.nn.Linear whose data tensors are      *)
(* taken from the layer, conv is the layer's own conv object.              *)
(***************************************************************************)
ExportQuantLinear(id, l) ==
    LET has_bias == l.attrs.has_bias
    IN [has_bias |-> has_bias,
        weight_data |-> IF l.attrs.fix_flag THEN <<id, "weight">>
                        ELSE <<id, "weight_integer">>,
        bias_data |-> IF has_bias
                      THEN IF l.attrs.fix_flag THEN <<id, "bias">>
                           ELSE <<id, "bias_integer">>
                      ELSE <<>>]

ExportQuantConv2d(id, l) ==
    [conv |-> l.attrs.conv]

(***************************************************************************)
(* Module trees.  An object is [cls, kids, rg, attrs]: its class, its      *)
(* child modules by attribute name, the requires_grad flag of the          *)
(* parameters it owns, and the attributes of its class.                    *)
(***************************************************************************)
Containers == {"Sequential", "Module"}

\* attribute names in the order sorted() gives them
NameOrder == <<"0", "layer1", "layer2">>

Names == {NameOrder[i] : i \in DOMAIN NameOrder}

\* names whose first character is a digit (the default child names of a
\* torch.nn.Sequential)
DigitNames == {"0"}

NameIdx(n) == CHOOSE i \in DOMAIN NameOrder : NameOrder[i] = n

TreeActBits == {1, MaxBit}

\* the layers a caller's model is built from
LeafKinds ==
    {[cls |-> "QuantAct", rg |-> FALSE,
      attrs |-> [activation_bit |-> b, full_precision_flag |-> fp,
                 quant_mode |-> "symmetric", act_scaling_factor |-> 1]] :
        b \in TreeActBits, fp \in BOOLEAN}
    \cup {[cls |-> "QuantLinear", rg |-> TRUE,
           attrs |-> [fix_flag |-> ff, has_bias |-> hb]] : ff \in BOOLEAN, hb \in BOOLEAN}
    \cup {[cls |-> "QuantConv2d", rg |-> TRUE, attrs |-> [conv |-> None]]}
    \cup {[cls |-> "QuantBnConv2d", rg |-> TRUE, attrs |-> NoAttrs]}
    \cup {[cls |-> c, rg |-> FALSE, attrs |-> NoAttrs] :
            c \in {"QuantMaxPool2d", "QuantAveragePool2d", "ReLU"}}

ContainerKinds == {[cls |-> c, rg |-> FALSE, attrs |-> NoAttrs] : c \in Containers}

Kinds == LeafKinds \cup ContainerKinds

\* the heap of a model of n modules: module i > 1 is attribute name[i] of
\* module parent[i]; a QuantConv2d owns a conv object of its own
BuildModel(n, parent, name, kind) ==
    [i \in 1..n |->
        [cls |-> kind[i].cls,
         kids |-> [nm \in {name[j] : j \in {k \in 2..n : parent[k] = i}} |->
                      CHOOSE j \in 2..n : parent[j] = i /\ name[j] = nm],
         rg |-> kind[i].rg,
         attrs |-> IF kind[i].cls = "QuantConv2d" THEN [conv |-> i]
                   ELSE kind[i].attrs]]

RECURSIVE Descendants(_, _)
\* the modules of the tree under m, m included (model.modules())
Descendants(h, m) ==
    {m} \cup UNION {Descendants(h, h[m].kids[n]) : n \in DOMAIN h[m].kids}

SetMax(S) == CHOOSE x \in S : \A y \in S : y <= x

NewId(h) == SetMax(DOMAIN h) + 1

\* copy.deepcopy(model): every module of the tree is copied to a new object
CopyId(i) == i + MaxNodes

DeepCopy(h, m) ==
    LET D == Descendants(h, m)
        new == {CopyId(i) : i \in D}
    IN [j \in DOMAIN h \cup new |->
           IF j \in DOMAIN h THEN h[j]
           ELSE LET o == h[j - MaxNodes]
                IN [cls |-> o.cls,
                    kids |-> [nm \in DOMAIN o.kids |-> CopyId(o.kids[nm])],
                    rg |-> o.rg,
                    attrs |-> IF o.cls = "QuantConv2d"
                              THEN [conv |-> CopyId(o.attrs.conv)]
                              ELSE o.attrs]]

\* export_model = model: no copy is worked on
CopyRoot_Alias(m) == m

\* the object export_to_qonnx works on
CopyRoot(m) == CopyId(m)

(***************************************************************************)
(* replace_layers.                                                         *)
(***************************************************************************)
\* for param in model.parameters(): param.requires_grad_(False)
FreezeParams(h, m) ==
    LET D == Descendants(h, m)
    IN [j \in DOMAIN h |-> IF j \in D THEN [h[j] EXCEPT !.rg = FALSE] ELSE h[j]]

\* dir(model), restricted to the names bound to modules: torch.nn.Module.__dir__
\* returns the sorted names and leaves out every name that starts with a digit
Dir(h, m) ==
    SelectSeq(NameOrder, LAMBDA n : n \in DOMAIN h[m].kids /\ n \notin DigitNames)

\* setattr(model, name, <a new object obj>)
SetNew(h, m, name, obj) ==
    LET id == NewId(h)
    IN [j \in DOMAIN h \cup {id} |->
           IF j = id THEN obj
           ELSE IF j = m THEN [h[j] EXCEPT !.kids[name] = id]
           ELSE h[j]]

RECURSIVE replace_layers(_, _), VisitNames(_, _, _), Visit(_, _, _)
\* st is [h, err]: the heap, and the RuntimeError raised so far (or NoError)
replace_layers(st, m) ==
    VisitNames([st EXCEPT !.h = FreezeParams(st.h, m)], m, Dir(st.h, m))

\* the loop over dir(model); an exception ends it
VisitNames(st, m, names) ==
    IF names = <<>> \/ st.err # NoError THEN st
    ELSE VisitNames(Visit(st, m, Head(names)), m, Tail(names))

\* one iteration of the loop: the dispatch on the type of getattr(model, name)
Visit(st, m, name) ==
    LET id == st.h[m].kids[name]
        l == st.h[id]
    IN IF l.cls = "QuantAct"
       THEN [st EXCEPT !.h = SetNew(st.h, m, name,
                [cls |-> "ExportQuantAct", kids |-> NoKids, rg |-> FALSE,
                 src |-> id, attrs |-> ExportQuantAct(l.attrs)])]
       ELSE IF l.cls = "QuantLinear"
       THEN [st EXCEPT !.h = SetNew(st.h, m, name,
                [cls |-> "ExportQuantLinear", kids |-> NoKids, rg |-> TRUE,
                 src |-> id, attrs |-> ExportQuantLinear(id, l)])]
       ELSE IF l.cls = "QuantConv2d"
       THEN [st EXCEPT !.h = SetNew(st.h, m, name,
                [cls |-> "ExportQuantConv2d", kids |-> NoKids, rg |-> l.rg,
                 src |-> id, attrs |-> ExportQuantConv2d(id, l)])]
       ELSE IF l.cls = "Sequential"
       THEN replace_layers(st, id)
       ELSE IF l.cls \in UNSUPPORTED_LAYERS
       THEN [st EXCEPT !.err = <<"Unsupported layer type found", l.cls>>]
       ELSE st

(***************************************************************************)
(* register_custom_ops and export_to_qonnx.                                *)
(***************************************************************************)
\* a registration that forgets BipolarQuant
RegisteredOps_QuantOnly == {OpName("Quant")}

\* the operator names register_custom_ops registers a symbolic for
RegisteredOps == {OpName("Quant"), OpName("BipolarQuant")}

\* the two checks in the other order
ArgError_InputFirst(model, input) ==
    IF input = None THEN <<"Input cannot be None">>
    ELSE IF model = None THEN <<"Model cannot be None">>
    ELSE NoError

\* the checks at the head of export_to_qonnx
ArgError(model, input) ==
    IF model = None THEN <<"Model cannot be None">>
    ELSE IF input = None THEN <<"Input cannot be None">>
    ELSE NoError

\* filename = f'{model._get_name()}_{date_time}.onnx' when none is given
DefaultFilename(h, model) == <<h[model].cls, "date_time", ".onnx">>

Inputs == 1..MaxInput

Scales == 1..MaxScale

Filenames == {NoFilename, <<"model.onnx">>}

\* the arguments a caller passes for input: None, or the one sample tensor
CallInputs == {None, 1}

\* the caller's models: every tree of at most MaxNodes modules whose root is
\* a container, with siblings numbered in the order of their names
InitTree ==
    \E n \in 1..MaxNodes :
      \E parent \in [2..n -> 1..n] :
        /\ \A i \in 2..n : parent[i] < i
        /\ \E name \in [2..n -> Names] :
             /\ \A i, j \in 2..n :
                  (i < j /\ parent[i] = parent[j]) => NameIdx(name[i]) < NameIdx(name[j])
             /\ \E kind \in [1..n -> Kinds] :
                  /\ kind[1] \in ContainerKinds
                  /\ \A i \in 2..n : kind[parent[i]] \in ContainerKinds
                  /\ heap = BuildModel(n, parent, name, kind)
    /\ orig = heap
    /\ pc = "idle"
    /\ arg_model = None
    /\ arg_input = None
    /\ arg_filename = NoFilename
    /\ filename = NoFilename
    /\ registry = {}
    /\ export_model = None
    /\ export_calls = <<>>
    /\ ret = None
    /\ err = NoError

Init ==
    /\ InitTree
    /\ layer = NoLayer
    /\ act = NoLayer
    /\ out = NoLayer

\* export_to_qonnx(model, input, filename) is called: the argument checks and
\* the default of filename.  The result of an earlier call is dropped.
Call(model, input, fname) ==
    /\ pc \in {"idle", "returned", "raised"}
    /\ heap' = [i \in DOMAIN orig |-> heap[i]]
    /\ arg_model' = model
    /\ arg_input' = input
    /\ arg_filename' = fname
    /\ export_model' = None
    /\ export_calls' = <<>>
    /\ ret' = None
    /\ err' = ArgError(model, input)
    /\ IF ArgError(model, input) # NoError
       THEN pc' = "raised" /\ filename' = fname
       ELSE /\ pc' = "checked"
            /\ filename' = IF fname = NoFilename THEN DefaultFilename(heap, model)
                           ELSE fname
    /\ UNCHANGED <<orig, registry>>
    /\ UNCHANGED actVars

\* register_custom_ops()
Register ==
    /\ pc = "checked"
    /\ registry' = registry \cup RegisteredOps
    /\ pc' = "registered"
    /\ UNCHANGED <<heap, orig, arg_model, arg_input, arg_filename, filename,
                   export_model, export_calls, ret, err>>
    /\ UNCHANGED actVars

\* export_model = copy.deepcopy(model)
Copy ==
    /\ pc = "registered"
    /\ heap' = DeepCopy(heap, arg_model)
    /\ export_model' = CopyRoot(arg_model)
    /\ pc' = "copied"
    /\ UNCHANGED <<orig, arg_model, arg_input, arg_filename, filename,
                   registry, export_calls, ret, err>>
    /\ UNCHANGED actVars

\* replace_layers(export_model)
Replace ==
    /\ pc = "copied"
    /\ LET st == replace_layers([h |-> heap, err |-> NoError], export_model)
       IN /\ heap' = st.h
          /\ err' = st.err
          /\ pc' = IF st.err = NoError THEN "replaced" ELSE "raised"
    /\ UNCHANGED <<orig, arg_model, arg_input, arg_filename, filename,
                   registry, export_model, export_calls, ret>>
    /\ UNCHANGED actVars

\* torch.onnx.export(export_model, input, filename): the exporter either
\* writes the file or raises
Export ==
    /\ pc = "replaced"
    /\ export_calls' = Append(export_calls, <<export_model, arg_input, filename>>)
    /\ \/ pc' = "exported" /\ err' = err
       \/ pc' = "raised" /\ err' = <<"torch.onnx.export failed">>
    /\ UNCHANGED <<heap, orig, arg_model, arg_input, arg_filename, filename,
                   registry, export_model, ret>>
    /\ UNCHANGED actVars

\* return export_model
Return ==
    /\ pc = "exported"
    /\ ret' = export_model
    /\ pc' = "returned"
    /\ UNCHANGED <<heap, orig, arg_model, arg_input, arg_filename, filename,
                   registry, export_model, export_calls, err>>
    /\ UNCHANGED actVars

Next ==
    \/ \E model \in {None, 1}, input \in CallInputs, fname \in Filenames :
         Call(model, input, fname)
    \/ Register
    \/ Copy
    \/ Replace
    \/ Export
    \/ Return

Spec == Init /\ [][Next]_vars

(***************************************************************************)
(* The layer-level specification: one QuantAct of any configuration, the   *)
(* ExportQuantAct built from it, and forward calls on that layer.          *)
(***************************************************************************)
QuantActs ==
    [activation_bit : 1..MaxBit, full_precision_flag : BOOLEAN,
     quant_mode : {"symmetric", "asymmetric"}, act_scaling_factor : Scales]

InitAct ==
    /\ layer \in QuantActs
    /\ act = NoLayer
    /\ out = NoLayer
    /\ heap = <<[cls |-> "Module", kids |-> NoKids, rg |-> FALSE, attrs |-> NoAttrs]>>
    /\ orig = heap
    /\ pc = "idle"
    /\ arg_model = None
    /\ arg_input = None
    /\ arg_filename = NoFilename
    /\ filename = NoFilename
    /\ registry = {}
    /\ export_model = None
    /\ export_calls = <<>>
    /\ ret = None
    /\ err = NoError

\* ExportQuantAct(layer)
Construct ==
    /\ act = NoLayer
    /\ act' = ExportQuantAct(layer)
    /\ UNCHANGED <<layer, out>>
    /\ UNCHANGED treeVars

\* act(x, act_scaling_factor); act_scaling_factor defaults to None
Forward(x, a) ==
    /\ act # NoLayer
    /\ LET r == ExportQuantAct_forward(act, x, a)
       IN /\ out' = [x |-> x, a |-> a, before |-> act, ret |-> r.ret, node |-> r.node]
          /\ act' = r.self
    /\ UNCHANGED layer
    /\ UNCHANGED treeVars

NextAct ==
    \/ Construct
    \/ \E x \in Inputs, a \in {None} \cup Scales : Forward(x, a)

SpecAct == InitAct /\ [][NextAct]_vars

(***************************************************************************)
(* Properties.                                                             *)
(***************************************************************************)
\* replace_layers(export_model) has returned without raising
Replaced == pc \in {"replaced", "exported", "returned"}

\* the modules of the caller's model, as built
OrigModules == Descendants(orig, 1)

\* the modules of the tree export_to_qonnx works on
ExportModules == Descendants(heap, export_model)

RECURSIVE SequentialNest(_, _)
\* m and, recursively, every torch.nn.Sequential that is an attribute of it
SequentialNest(h, m) ==
    {m} \cup UNION {SequentialNest(h, h[m].kids[n]) :
                       n \in {k \in DOMAIN h[m].kids : h[h[m].kids[k]].cls = "Sequential"}}

\* the operator names the export layers of the tree under root emit when traced
EmittableOps(h, root) ==
    {ExportQuantAct_forward(h[d].attrs, 1, None).node.op :
        d \in {e \in Descendants(h, root) : h[e].cls = "ExportQuantAct"}}

\* C1: once replace_layers has returned without raising, no QuantAct,
\* QuantLinear or QuantConv2d remains anywhere in the module tree of the model,
\* at any depth and inside any kind of container.
C1_NoQuantizedLayerRemains ==
    Replaced => \A d \in ExportModules : heap[d].cls \notin SUPPORTED_LAYERS

\* C2: export_to_qonnx changes only its deep copy: whether the call returns or
\* raises, every object of the caller's model is as it was (same children under
\* the same names, same class, same requires_grad), the tree worked on shares
\* no object with it, and the value returned is the copy, never the original.
C2_OriginalUnchanged ==
    /\ \A i \in DOMAIN orig : heap[i] = orig[i]
    /\ export_model # None =>
         /\ ExportModules \cap DOMAIN orig = {}
         /\ \A d \in ExportModules :
              heap[d].cls = "ExportQuantConv2d" =>
                 \A i \in DOMAIN orig :
                    orig[i].cls = "QuantConv2d" => heap[d].attrs.conv # orig[i].attrs.conv
    /\ pc = "returned" => ret = export_model /\ ret # None /\ ret \notin DOMAIN orig
    /\ pc # "returned" => ret = None

\* a call has returned a tree with an ExportQuantLinear in it, for a model
\* that has a QuantLinear whose parameters require grad
C2_Witness ==
    /\ pc = "returned"
    /\ \E d \in Descendants(heap, ret) : heap[d].cls = "ExportQuantLinear"
    /\ \E i \in DOMAIN orig : orig[i].cls = "QuantLinear" /\ orig[i].rg

NodeCarriesAllFour(node, self) ==
    /\ Len(node.inputs) = 4
    /\ node.inputs[2] = self.scale
    /\ node.inputs[3] = self.zero_point
    /\ node.inputs[4] = self.bit_width
    /\ "rounding_mode_s" \in DOMAIN node.attrs
    /\ node.attrs.rounding_mode_s = self.rounding_mode

\* C3 as stated: the node emitted by ExportQuantAct.forward carries scale,
\* zero point, bit width and rounding mode, for every QuantAct configuration.
C3_EveryNodeCarriesAllFour ==
    out # NoLayer => NodeCarriesAllFour(out.node, out.before)

\* C3 as amended: the Quant node emitted for a layer whose bit width is not 1
\* carries scale, zero point, bit width and rounding mode; the BipolarQuant
\* node emitted for a layer of bit width 1 carries the input and the scale only.
C3_QuantNodeCarriesAllFour ==
    out # NoLayer =>
       IF out.before.bit_width = 1
       THEN /\ out.node.op = OpName("BipolarQuant")
            /\ out.node.inputs = <<out.x, out.before.scale>>
            /\ DOMAIN out.node.attrs = {}
       ELSE /\ out.node.op = OpName("Quant")
            /\ out.node.inputs[1] = out.x
            /\ NodeCarriesAllFour(out.node, out.before)

\* forward has run on a layer of bit width 1 and emitted BipolarQuant
C3_Witness ==
    /\ out # NoLayer
    /\ out.before.bit_width = 1
    /\ out.node.op = OpName("BipolarQuant")

\* C4: whenever export_to_qonnx reaches torch.onnx.export, a symbolic is
\* registered for Quant and for BipolarQuant, every operator an export layer of
\* the tree can emit is registered, and none of them emits Trunc.
C4_HooksRegisteredBeforeExport ==
    (pc = "replaced" \/ export_calls # <<>>) =>
       /\ {OpName(n) : n \in SUPPORTED_QONNX} \subseteq registry
       /\ EmittableOps(heap, export_model) \subseteq registry
       /\ \A n \in UNSUPPORTED_QONNX : OpName(n) \notin EmittableOps(heap, export_model)

\* torch.onnx.export was called on a tree whose export layers emit both
\* Quant and BipolarQuant
C4_Witness ==
    /\ export_calls # <<>>
    /\ EmittableOps(heap, export_model) = {OpName("Quant"), OpName("BipolarQuant")}

\* C5: after replace_layers, every attribute of the model and, recursively, of
\* each nested torch.nn.Sequential that was a QuantAct, QuantLinear or
\* QuantConv2d is bound, under the same name, to the export layer of its type
\* built from it; every attribute of another type that is not an unsupported
\* layer is bound to the same object as before.
C5_DispatchByType ==
    Replaced =>
       \A i \in SequentialNest(orig, 1) : \A nm \in DOMAIN orig[i].kids :
          LET was == orig[orig[i].kids[nm]].cls
              old == CopyId(orig[i].kids[nm])
              cur == heap[CopyId(i)].kids[nm]
          IN /\ was = "QuantAct" =>
                  /\ heap[cur].cls = "ExportQuantAct"
                  /\ heap[cur].src = old
                  /\ heap[cur].attrs = ExportQuantAct(heap[old].attrs)
             /\ was = "QuantLinear" =>
                  /\ heap[cur].cls = "ExportQuantLinear"
                  /\ heap[cur].src = old
             /\ was = "QuantConv2d" =>
                  /\ heap[cur].cls = "ExportQuantConv2d"
                  /\ heap[cur].src = old
                  /\ heap[cur].attrs.conv = heap[old].attrs.conv
             /\ was \notin SUPPORTED_LAYERS \cup UNSUPPORTED_LAYERS => cur = old

\* C6 as stated: after any sequence of calls no process-global state, the
\* symbolic registry included, differs from what it was before the first call.
C6_NoPersistentState ==
    pc \in {"returned", "raised"} => registry = {}

\* C6 as amended: the symbolic registry is the one process-global state a call
\* changes: a call that passes its argument checks adds the Quant and
\* BipolarQuant hooks to it, and nothing ever removes or adds anything else.
C6_RegistryOnlyGainsHooks ==
    [][/\ registry' \in {registry,
                         registry \cup {OpName("Quant"), OpName("BipolarQuant")}}
       /\ registry' # registry => pc = "checked" /\ pc' = "registered"
       /\ (pc = "checked" /\ pc' = "registered") =>
             {OpName("Quant"), OpName("BipolarQuant")} \subseteq registry']_vars

\* a later call starts with the hooks of an earlier call still registered
C6_Witness ==
    /\ pc = "checked"
    /\ registry = {OpName("Quant"), OpName("BipolarQuant")}

\* C7: ExportQuantAct.forward(x, a) returns the pair (x, a) and changes no
\* attribute of the layer, for every configuration; QuantFunc.forward,
\* BinaryQuantFunc.forward and TruncFunc.forward return their first argument
\* whatever the other arguments are.
C7_ForwardIsPassThrough ==
    /\ out # NoLayer => out.ret = <<out.x, out.a>> /\ act = out.before
    /\ \A x \in Inputs, s \in Scales, b \in 1..MaxBit, sg \in {0, 1} :
         /\ QuantFunc_forward(x, s, 0, b, sg, 0, "ROUND") = x
         /\ BinaryQuantFunc_forward(x, s) = x
         /\ TruncFunc_forward(x, s, 0, FullPrecisionBits, b, "ROUND") = x

\* forward has run through QuantFunc with a scaling factor given and a scale
\* that differs from the input
C7_Witness ==
    /\ out # NoLayer
    /\ out.a # None
    /\ out.before.bit_width # 1
    /\ out.x # out.before.scale

\* C8: when the model holds a QuantBnConv2d, QuantMaxPool2d or
\* QuantAveragePool2d anywhere in its tree, export_to_qonnx raises the
\* RuntimeError 'Unsupported layer type found ...' and torch.onnx.export is
\* never called.
C8_UnsupportedLayerRaises ==
    (\E d \in OrigModules : orig[d].cls \in UNSUPPORTED_LAYERS) =>
       /\ export_calls = <<>>
       /\ ~Replaced
       /\ (pc = "raised" /\ ArgError(arg_model, arg_input) = NoError) =>
             /\ Len(err) = 2
             /\ err[1] = "Unsupported layer type found"
             /\ err[2] \in UNSUPPORTED_LAYERS

\* C9: a call with model = None or input = None raises RuntimeError before any
\* effect: the step that makes the call registers no hook, copies nothing,
\* replaces nothing and does not call torch.onnx.export; with both None the
\* error is the one for the model.
C9_NoneRaisesBeforeAnyEffect ==
    [][(pc' # "idle" /\ (arg_model' = None \/ arg_input' = None)) =>
          /\ pc' = "raised"
          /\ err' = IF arg_model' = None THEN <<"Model cannot be None">>
                    ELSE <<"Input cannot be None">>
          /\ registry' = registry
          /\ heap' = orig
          /\ export_model' = None
          /\ export_calls' = <<>>
          /\ ret' = None]_vars

\* a call with both arguments None has raised, after an earlier call got as
\* far as registering the hooks
C9_Witness ==
    /\ pc = "raised"
    /\ arg_model = None
    /\ arg_input = None
    /\ registry # {}

\* C10: the ExportQuantAct built from a QuantAct has bit_width 32 when
\* full_precision_flag is set and activation_bit otherwise, zero_point 0,
\* narrow_range 0, rounding mode 'ROUND' and signed = 1 exactly for quant_mode
\* 'symmetric'; its forward emits BipolarQuant exactly when bit_width is 1
\* (never for a full-precision layer) and Quant otherwise.
C10_ExportQuantActAttributes ==
    act # NoLayer =>
       /\ act.bit_width = IF layer.full_precision_flag THEN 32 ELSE layer.activation_bit
       /\ act.zero_point = 0
       /\ act.narrow_range = 0
       /\ act.rounding_mode = "ROUND"
       /\ act.signed \in {0, 1}
       /\ act.signed = 1 <=> layer.quant_mode = "symmetric"
       /\ out # NoLayer =>
            /\ out.node.op = OpName("BipolarQuant") <=> act.bit_width = 1
            /\ out.node.op = OpName("Quant") <=> act.bit_width # 1
            /\ layer.full_precision_flag => out.node.op = OpName("Quant")

\* forward has run on the layer built from a full-precision QuantAct whose
\* activation_bit is 1
C10_Witness ==
    /\ out # NoLayer
    /\ layer.full_precision_flag
    /\ layer.activation_bit = 1
    /\ out.node.op = OpName("Quant")

====
